---- MODULE Spec2Model ----
(***************************************************************************)
(* A model of src/app.py: the Black-Scholes-Merton pricing functions       *)
(* bs_call_price and bs_put_price, the intrinsic-value functions, and the  *)
(* sweep over spot prices that main() runs for the chosen slider values.   *)
(*                                                                         *)
(* NUMBERS.  The program computes in IEEE-754 doubles (Python float and    *)
(* np.float64).  A number is modelled as a record [k, v]:                  *)
(*    k = "fin"   a finite value, v / SCALE   (fixed point, 6 decimals)    *)
(*    k = "pinf"  +infinity      k = "ninf"  -infinity      k = "nan"  NaN *)
(* The special values follow IEEE-754 (inf - inf, 0 * inf and 0 / 0 are    *)
(* NaN, log(0) is -inf, exp overflows to +inf above EXP_OVERFLOW).         *)
(* Finite arithmetic is rounded to the nearest multiple of 1 / SCALE, so   *)
(* the model resolves prices to about 1e-4; it does not represent the      *)
(* 1e-16 relative rounding of doubles.  TLC integers are 32 bits wide:     *)
(* finite values are limited to about +-2147, and any computation that     *)
(* leaves that range stops TLC with an overflow error instead of           *)
(* producing a wrong value.                                                *)
(***************************************************************************)
EXTENDS Integers, Sequences, FiniteSets, TLC

SCALE == 1000 * 1000
KILO == 10 * 100

Abs(a) == IF a < 0 THEN -a ELSE a
Sgn(a) == IF a < 0 THEN -1 ELSE IF a > 0 THEN 1 ELSE 0

(***************************************************************************)
(* Fixed-point kernels on integers (units of 1 / SCALE).                   *)
(***************************************************************************)

\* round(a * b / SCALE) for a, b >= 0, without leaving 32 bits
MulNat(a, b) ==
    LET ah == a \div KILO
        al == a % KILO
        bh == b \div KILO
        bl == b % KILO
        m == ah * bl
        n == al * bh
    IN  ah * bh + (m \div KILO) + (n \div KILO)
          + (((m % KILO) + (n % KILO)) * KILO + al * bl + (SCALE \div 2)) \div SCALE

MulFix(a, b) == Sgn(a) * Sgn(b) * MulNat(Abs(a), Abs(b))

\* long division: q carries the digits found so far, r the remainder (< b)
RECURSIVE DivDigits(_, _, _, _)
DivDigits(q, r, b, n) ==
    IF n = 0 THEN (IF 2 * r >= b THEN q + 1 ELSE q)
    ELSE DivDigits(q * 10 + ((r * 10) \div b), (r * 10) % b, b, n - 1)

\* round(a * SCALE / b) for a >= 0, b > 0
DivNat(a, b) == DivDigits(a \div b, a % b, b, 6)

DivFix(a, b) == Sgn(a) * Sgn(b) * DivNat(Abs(a), Abs(b))

\* floor(sqrt(n)) for an integer n >= 0 (Newton's iteration from above)
RECURSIVE ISqrtFrom(_, _)
ISqrtFrom(n, x) ==
    LET y == (x + (n \div x)) \div 2
    IN  IF y >= x THEN x ELSE ISqrtFrom(n, y)

ISqrt(n) == IF n = 0 THEN 0 ELSE ISqrtFrom(n, n)

\* one more decimal digit of a square root: s = floor(sqrt(N)), rem = N - s*s
\* become those of 100 * N
RECURSIVE SqrtDigit(_, _, _)
SqrtDigit(s, rem, d) ==
    IF (20 * s + d) * d <= 100 * rem
    THEN [s |-> 10 * s + d, rem |-> 100 * rem - (20 * s + d) * d]
    ELSE SqrtDigit(s, rem, d - 1)

\* round(sqrt(t / SCALE) * SCALE) = round(sqrt(t * SCALE)) for t >= 0
SqrtNat(t) ==
    LET s0 == ISqrt(t)
        a == SqrtDigit(s0, t - s0 * s0, 9)
        b == SqrtDigit(a.s, a.rem, 9)
        c == SqrtDigit(b.s, b.rem, 9)
    IN  IF c.rem > c.s THEN c.s + 1 ELSE c.s

\* sum of x^k / k! for k >= n, given term = x^(n-1) / (n-1)!
RECURSIVE ExpSeries(_, _, _)
ExpSeries(x, term, n) ==
    LET t == MulFix(term, x)
        next == Sgn(t) * ((Abs(t) + (n \div 2)) \div n)
    IN  IF next = 0 THEN 0 ELSE next + ExpSeries(x, next, n + 1)

E_FIX == 2718282
E_INV_FIX == 367879

RECURSIVE ExpInt(_)
ExpInt(n) ==
    IF n = 0 THEN SCALE
    ELSE IF n > 0 THEN MulNat(ExpInt(n - 1), E_FIX)
    ELSE MulNat(ExpInt(n + 1), E_INV_FIX)

\* exp(x / SCALE) * SCALE: x = n + f with n the nearest integer, |f| <= 1/2
ExpFix(x) ==
    LET n == (x + (SCALE \div 2)) \div SCALE
        f == x - n * SCALE
    IN  MulNat(ExpInt(n), SCALE + ExpSeries(f, SCALE, 1))

LN2_FIX == 693147

\* 2 * (z + z^3/3 + z^5/5 + ...) from the term p = z^k on
RECURSIVE AtanhSeries(_, _, _)
AtanhSeries(z2, p, k) ==
    LET t == Sgn(p) * ((Abs(p) + (k \div 2)) \div k)
    IN  IF p = 0 THEN 0 ELSE t + AtanhSeries(z2, MulFix(p, z2), k + 2)

\* ln(y / SCALE) * SCALE for y > 0: y = m * 2^e with 3/4 <= m < 3/2
RECURSIVE LnFix(_)
LnFix(y) ==
    IF 4 * y < 3 * SCALE THEN LnFix(2 * y) - LN2_FIX
    ELSE IF 2 * y >= 3 * SCALE THEN LnFix((y + 1) \div 2) + LN2_FIX
    ELSE LET z == DivFix(y - SCALE, y + SCALE)
         IN  2 * AtanhSeries(MulFix(z, z), z, 1)

PHI0_FIX == 398942

\* sum of (-1)^n x^(2n+1) / (2^n n! (2n+1)) from the term t = x^(2n+1) / (2^n n!) on
RECURSIVE CdfSeries(_, _, _)
CdfSeries(x2, t, n) ==
    LET d == 2 * n + 1
        s == Sgn(t) * ((Abs(t) + n) \div d)
        u == MulFix(t, x2)
        next == -(Sgn(u) * ((Abs(u) + n + 1) \div (2 * n + 2)))
    IN  IF t = 0 THEN 0 ELSE s + CdfSeries(x2, next, n + 1)

\* the upper tail 1 - Phi(a) for a >= sqrt(2): phi(a) * (b1 t + ... + b5 t^5),
\* t = 1 / (1 + p a)  (Abramowitz and Stegun 26.2.17, absolute error < 7.5e-8)
CdfTail(a) ==
    IF a >= 7 * SCALE THEN 0
    ELSE LET t == DivFix(SCALE, SCALE + MulFix(231642, a))
             h5 == 1330274
             h4 == MulFix(t, h5) - 1821256
             h3 == MulFix(t, h4) + 1781478
             h2 == MulFix(t, h3) - 356564
             h1 == MulFix(t, h2) + 319382
             poly == MulFix(t, h1)
             phi == MulFix(PHI0_FIX, ExpFix(-(MulFix(a, a) \div 2)))
         IN  MulFix(phi, poly)

\* Phi(x / SCALE) * SCALE.  As scipy's ndtr does, the central part comes from
\* an odd series around 0 and the rest from the tail, y for x < 0 and 1 - y
\* for x > 0.
CdfFix(x) ==
    IF Abs(x) < 1414214
    THEN (SCALE \div 2) + MulFix(PHI0_FIX, CdfSeries(MulFix(x, x), x, 0))
    ELSE IF x < 0 THEN CdfTail(-x) ELSE SCALE - CdfTail(x)

(***************************************************************************)
(* Doubles: finite fixed-point values and the IEEE-754 special values.     *)
(***************************************************************************)
Fin(n) == [k |-> "fin", v |-> n]
NaN == [k |-> "nan", v |-> 0]
PInf == [k |-> "pinf", v |-> 0]
NInf == [k |-> "ninf", v |-> 0]
Zero == Fin(0)
\* a name that holds no value (a local the function never assigned)
Unbound == [k |-> "unbound", v |-> 0]

IsFin(a) == a.k = "fin"
IsNaN(a) == a.k = "nan"
IsInf(a) == a.k \in {"pinf", "ninf"}
\* the sign of a non-NaN value
FSgn(a) == IF a.k = "pinf" THEN 1 ELSE IF a.k = "ninf" THEN -1 ELSE Sgn(a.v)
Inf(sign) == IF sign < 0 THEN NInf ELSE PInf

\* comparisons: any comparison with NaN is false
FLt(a, b) ==
    /\ ~IsNaN(a) /\ ~IsNaN(b)
    /\ \/ a.k = "ninf" /\ b.k # "ninf"
       \/ b.k = "pinf" /\ a.k # "pinf"
       \/ IsFin(a) /\ IsFin(b) /\ a.v < b.v
FLe(a, b) == ~IsNaN(a) /\ ~IsNaN(b) /\ (a = b \/ FLt(a, b))
FGt(a, b) == FLt(b, a)
FGe(a, b) == FLe(b, a)

FNeg(a) ==
    IF IsFin(a) THEN Fin(-a.v)
    ELSE IF IsNaN(a) THEN NaN ELSE Inf(-FSgn(a))

FAdd(a, b) ==
    IF IsNaN(a) \/ IsNaN(b) THEN NaN
    ELSE IF IsFin(a) /\ IsFin(b) THEN Fin(a.v + b.v)
    ELSE IF IsInf(a) /\ IsInf(b) THEN (IF a = b THEN a ELSE NaN)
    ELSE IF IsInf(a) THEN a ELSE b

FSub(a, b) == FAdd(a, FNeg(b))

FMul(a, b) ==
    IF IsNaN(a) \/ IsNaN(b) THEN NaN
    ELSE IF IsFin(a) /\ IsFin(b) THEN Fin(MulFix(a.v, b.v))
    ELSE IF FSgn(a) = 0 \/ FSgn(b) = 0 THEN NaN
    ELSE Inf(FSgn(a) * FSgn(b))

\* numpy's division: x / 0 is +-inf and 0 / 0 is NaN (a warning, no exception)
FDiv(a, b) ==
    IF IsNaN(a) \/ IsNaN(b) THEN NaN
    ELSE IF IsInf(a) THEN (IF IsInf(b) THEN NaN
                           ELSE Inf(FSgn(a) * (IF b.v < 0 THEN -1 ELSE 1)))
    ELSE IF IsInf(b) THEN Zero
    ELSE IF b.v = 0 THEN (IF a.v = 0 THEN NaN ELSE Inf(Sgn(a.v)))
    ELSE Fin(DivFix(a.v, b.v))

\* the largest x / SCALE with exp(x) finite in a double: ln(DBL_MAX) = 709.7827...
EXP_OVERFLOW == 709782712

\* np.exp: +inf above the overflow threshold; below -20 the value is under the
\* model's resolution (a double reaches 0 at -745.13)
FExp(a) ==
    IF IsNaN(a) THEN NaN
    ELSE IF a.k = "pinf" THEN PInf
    ELSE IF a.k = "ninf" THEN Zero
    ELSE IF a.v > EXP_OVERFLOW THEN PInf
    ELSE IF a.v < -20 * SCALE THEN Zero
    ELSE Fin(ExpFix(a.v))

\* np.log: log(0) = -inf, log of a negative number is NaN (warnings)
FLog(a) ==
    IF IsNaN(a) \/ a.k = "ninf" THEN NaN
    ELSE IF a.k = "pinf" THEN PInf
    ELSE IF a.v < 0 THEN NaN
    ELSE IF a.v = 0 THEN NInf
    ELSE Fin(LnFix(a.v))

\* np.sqrt
FSqrt(a) ==
    IF IsNaN(a) \/ a.k = "ninf" THEN NaN
    ELSE IF a.k = "pinf" THEN PInf
    ELSE IF a.v < 0 THEN NaN
    ELSE Fin(SqrtNat(a.v))

\* scipy.stats.norm.cdf: 0 at -inf, 1 at +inf, NaN at NaN
norm_cdf(a) ==
    IF IsNaN(a) THEN NaN
    ELSE IF a.k = "pinf" THEN Fin(SCALE)
    ELSE IF a.k = "ninf" THEN Zero
    ELSE Fin(CdfFix(a.v))

\* Python's max(0, x): x when x > 0, else 0 (so 0 for NaN)
PyMax0(x) == IF FGt(x, Zero) THEN x ELSE Zero

\* np.maximum(x, 0): NaN propagates
np_maximum0(x) == IF IsNaN(x) THEN NaN ELSE IF FGt(x, Zero) THEN x ELSE Zero

HALF == Fin(SCALE \div 2)

(***************************************************************************)
(* The pricing functions (src/app.py lines 49-80).  Each returns the       *)
(* function's frame at its return statement: ret, the value returned, and  *)
(* the locals d1 and d2 (Unbound when the function returned before         *)
(* assigning them).                                                        *)
(***************************************************************************)

\* np.exp(-q * T) * S - np.exp(-r * T) * K
ForwardIntrinsic(S, K, T, r, q) ==
    FSub(FMul(FExp(FMul(FNeg(q), T)), S), FMul(FExp(FMul(FNeg(r), T)), K))

\* mutant: the guard with < in place of <=, which lets sigma = 0 and T = 0 through
Degenerate_strict(sigma, T) == FLt(sigma, Zero) \/ FLt(T, Zero)

\* sigma <= 0 or T <= 0
Degenerate(sigma, T) == FLe(sigma, Zero) \/ FLe(T, Zero)

\* mutant: d1 with sigma**2 in place of 0.5 * sigma**2
D1_full_variance(S, K, T, r, sigma, q) ==
    FDiv(FAdd(FLog(FDiv(S, K)), FMul(FAdd(FSub(r, q), FMul(sigma, sigma)), T)),
         FMul(sigma, FSqrt(T)))

\* d1 = (np.log(S / K) + (r - q + 0.5 * sigma**2) * T) / (sigma * np.sqrt(T))
D1(S, K, T, r, sigma, q) ==
    FDiv(FAdd(FLog(FDiv(S, K)),
              FMul(FAdd(FSub(r, q), FMul(HALF, FMul(sigma, sigma))), T)),
         FMul(sigma, FSqrt(T)))

\* d2 = d1 - sigma * np.sqrt(T)
D2(d1, T, sigma) == FSub(d1, FMul(sigma, FSqrt(T)))

bs_call_price(S, K, T, r, sigma, q) ==
    IF Degenerate(sigma, T)
    THEN [ret |-> PyMax0(ForwardIntrinsic(S, K, T, r, q)),
          d1 |-> Unbound, d2 |-> Unbound]
    ELSE LET d1 == D1(S, K, T, r, sigma, q)
             d2 == D2(d1, T, sigma)
         IN  [ret |-> FSub(FMul(FMul(S, FExp(FMul(FNeg(q), T))), norm_cdf(d1)),
                           FMul(FMul(K, FExp(FMul(FNeg(r), T))), norm_cdf(d2))),
              d1 |-> d1, d2 |-> d2]

bs_put_price(S, K, T, r, sigma, q) ==
    IF Degenerate(sigma, T)
    THEN [ret |-> PyMax0(FNeg(ForwardIntrinsic(S, K, T, r, q))),
          d1 |-> Unbound, d2 |-> Unbound]
    ELSE LET d1 == D1(S, K, T, r, sigma, q)
             d2 == D2(d1, T, sigma)
         IN  [ret |-> FSub(FMul(FMul(K, FExp(FMul(FNeg(r), T))), norm_cdf(FNeg(d2))),
                           FMul(FMul(S, FExp(FMul(FNeg(q), T))), norm_cdf(FNeg(d1)))),
              d1 |-> d1, d2 |-> d2]

intrinsic_call(S, K) == np_maximum0(FSub(S, K))

\* mutant: the put's intrinsic value computed as the call's
intrinsic_put_as_call(S, K) == np_maximum0(FSub(S, K))

intrinsic_put(S, K) == np_maximum0(FSub(K, S))

(***************************************************************************)
(* State.                                                                  *)
(*   pc                     where the running script (or the caller) is    *)
(*   strike ... dividend_yield   the values main() reads from the sliders  *)
(*   S_vals ... intrinsic_put_vals   the five sequences main() builds      *)
(*   call_frames, put_frames      the frame of every pricing call made by  *)
(*                                main(), in call order (history)          *)
(*   args, call, put        one direct call of the pricing functions: its  *)
(*                          arguments and the two frames                   *)
(*   prev                   the direct call before it                      *)
(***************************************************************************)
VARIABLES pc, strike, time_to_maturity, risk_free_rate, volatility,
          dividend_yield, S_vals, call_vals, put_vals, intrinsic_call_vals,
          intrinsic_put_vals, call_frames, put_frames, args, call, put, prev

sliders == <<strike, time_to_maturity, risk_free_rate, volatility, dividend_yield>>
curves == <<S_vals, call_vals, put_vals, intrinsic_call_vals, intrinsic_put_vals,
            call_frames, put_frames>>
direct == <<args, call, put, prev>>
vars == <<pc, sliders, curves, direct>>

None == [k |-> "none", v |-> 0]

(***************************************************************************)
(* The sliders of main() (lines 89-101).  A slider returns min + i * step  *)
(* for some i with min + i * step <= max; it starts at its value= setting. *)
(* Positions are sampled: samples evenly spread positions that always      *)
(* include both ends.  The script runs with the five initial values or     *)
(* with any combination of the sampled positions.                          *)
(***************************************************************************)
STRIKE_MIN == 10
STRIKE_MAX == 200
STRIKE_STEP == 5
STRIKE_VALUE == 100
\* time to maturity, in tenths of a year
TIME_MIN == 1
TIME_MAX == 30
TIME_VALUE == 10
\* risk-free rate and dividend yield, in tenths of a percent
RATE_MIN == 0
RATE_MAX == 100
RATE_VALUE == 20
DIVIDEND_VALUE == 10
\* volatility, in percent
VOL_MIN == 1
VOL_MAX == 100
VOL_VALUE == 20

\* how many positions of the strike slider are explored
StrikeSamples == 2

SliderPositions(min, max, step, samples) ==
    LET n == (max - min) \div step
    IN  {min + step * ((n * j) \div (samples - 1)) : j \in 0 .. samples - 1}

StrikeSlider == SliderPositions(STRIKE_MIN, STRIKE_MAX, STRIKE_STEP, StrikeSamples)
TimeSlider == SliderPositions(TIME_MIN, TIME_MAX, 1, 2)
RateSlider == SliderPositions(RATE_MIN, RATE_MAX, 1, 2)
\* mutant: a volatility slider that starts at 0
VolatilitySlider_from_zero == SliderPositions(0, VOL_MAX, 1, 2)
VolatilitySlider == SliderPositions(VOL_MIN, VOL_MAX, 1, 2)
DividendSlider == SliderPositions(RATE_MIN, RATE_MAX, 1, 2)

\* <<strike, time, rate, volatility, yield>> as the sliders return them
SliderSettings ==
    (StrikeSlider \X TimeSlider \X RateSlider \X VolatilitySlider \X DividendSlider)
        \cup {<<STRIKE_VALUE, TIME_VALUE, RATE_VALUE, VOL_VALUE, DIVIDEND_VALUE>>}

\* the number of points of np.linspace(S_min, S_max, 200)
NUM_POINTS == 200

\* mutant: the spacing of num intervals, and no endpoint (endpoint=False)
linspace_open(stop, num) ==
    LET step == FDiv(stop, Fin(num * SCALE))
    IN  [i \in 1 .. num |-> FMul(Fin((i - 1) * SCALE), step)]

\* np.linspace(0, stop, num): step = stop / (num - 1), y[i] = i * step, and the
\* last point is then set to stop itself
linspace(stop, num) ==
    LET step == FDiv(stop, Fin((num - 1) * SCALE))
    IN  [i \in 1 .. num |->
            IF i = num THEN stop ELSE FMul(Fin((i - 1) * SCALE), step)]

\* line 108: S_max = 2 * strike
S_max == FMul(Fin(2 * SCALE), strike)

(***************************************************************************)
(* main(): one run of the script.                                          *)
(***************************************************************************)
Init ==
    /\ pc = "start"
    /\ strike = None /\ time_to_maturity = None /\ risk_free_rate = None
    /\ volatility = None /\ dividend_yield = None
    /\ S_vals = <<>> /\ call_vals = <<>> /\ put_vals = <<>>
    /\ intrinsic_call_vals = <<>> /\ intrinsic_put_vals = <<>>
    /\ call_frames = <<>> /\ put_frames = <<>>
    /\ args = None /\ call = None /\ put = None /\ prev = None

\* lines 89-101: read the five sliders; rate, volatility and yield are
\* divided by 100.0, strike and maturity are used as they are
ReadSliders ==
    /\ pc = "start"
    /\ \E w \in SliderSettings :
          /\ strike' = Fin(w[1] * SCALE)
          /\ time_to_maturity' = Fin(w[2] * (SCALE \div 10))
          /\ risk_free_rate' = FDiv(Fin(w[3] * (SCALE \div 10)), Fin(100 * SCALE))
          /\ volatility' = FDiv(Fin(w[4] * SCALE), Fin(100 * SCALE))
          /\ dividend_yield' = FDiv(Fin(w[5] * (SCALE \div 10)), Fin(100 * SCALE))
    /\ pc' = "linspace"
    /\ UNCHANGED <<curves, direct>>

\* lines 107-109
Linspace ==
    /\ pc = "linspace"
    /\ S_vals' = linspace(S_max, NUM_POINTS)
    /\ pc' = "call_vals"
    /\ UNCHANGED <<sliders, call_vals, put_vals, intrinsic_call_vals,
                   intrinsic_put_vals, call_frames, put_frames, direct>>

\* line 112: one iteration of the list comprehension over S_vals
CallStep ==
    /\ pc = "call_vals"
    /\ Len(call_vals) < Len(S_vals)
    /\ LET S == S_vals[Len(call_vals) + 1]
           f == bs_call_price(S, strike, time_to_maturity, risk_free_rate,
                              volatility, dividend_yield)
       IN  /\ call_vals' = Append(call_vals, f.ret)
           /\ call_frames' = Append(call_frames, f)
    /\ UNCHANGED <<pc, sliders, S_vals, put_vals, intrinsic_call_vals,
                   intrinsic_put_vals, put_frames, direct>>

CallDone ==
    /\ pc = "call_vals"
    /\ Len(call_vals) = Len(S_vals)
    /\ pc' = "put_vals"
    /\ UNCHANGED <<sliders, curves, direct>>

\* line 113
PutStep ==
    /\ pc = "put_vals"
    /\ Len(put_vals) < Len(S_vals)
    /\ LET S == S_vals[Len(put_vals) + 1]
           f == bs_put_price(S, strike, time_to_maturity, risk_free_rate,
                             volatility, dividend_yield)
       IN  /\ put_vals' = Append(put_vals, f.ret)
           /\ put_frames' = Append(put_frames, f)
    /\ UNCHANGED <<pc, sliders, S_vals, call_vals, intrinsic_call_vals,
                   intrinsic_put_vals, call_frames, direct>>

PutDone ==
    /\ pc = "put_vals"
    /\ Len(put_vals) = Len(S_vals)
    /\ pc' = "intrinsic"
    /\ UNCHANGED <<sliders, curves, direct>>

\* lines 114-115: the intrinsic functions applied to the whole array
Intrinsic ==
    /\ pc = "intrinsic"
    /\ intrinsic_call_vals' = [i \in 1 .. Len(S_vals) |-> intrinsic_call(S_vals[i], strike)]
    /\ intrinsic_put_vals' = [i \in 1 .. Len(S_vals) |-> intrinsic_put(S_vals[i], strike)]
    /\ pc' = "plot"
    /\ UNCHANGED <<sliders, S_vals, call_vals, put_vals, call_frames, put_frames,
                   direct>>

\* a slider is moved: Streamlit runs the script again from the top
Rerun ==
    /\ pc = "plot"
    /\ pc' = "start"
    /\ strike' = None /\ time_to_maturity' = None /\ risk_free_rate' = None
    /\ volatility' = None /\ dividend_yield' = None
    /\ S_vals' = <<>> /\ call_vals' = <<>> /\ put_vals' = <<>>
    /\ intrinsic_call_vals' = <<>> /\ intrinsic_put_vals' = <<>>
    /\ call_frames' = <<>> /\ put_frames' = <<>>
    /\ UNCHANGED direct

Next ==
    \/ ReadSliders
    \/ Linspace
    \/ CallStep
    \/ CallDone
    \/ PutStep
    \/ PutDone
    \/ Intrinsic
    \/ Rerun

Spec == Init /\ [][Next]_vars

(***************************************************************************)
(* Direct calls of the pricing functions.  A caller picks the arguments,   *)
(* calls bs_call_price and bs_put_price with them, and may then call both  *)
(* again with a higher spot and everything else unchanged.                 *)
(*                                                                         *)
(* The arguments are drawn from a grid of ordinary values (with the zero   *)
(* spot and the zero or negative volatility and maturity that the guard    *)
(* of the functions tests for) and from                                    *)
(* calls with a rate so negative that exp(-r * T) exceeds the largest      *)
(* double.  The volatility of those calls keeps d1 inside the model's      *)
(* range of finite values.                                                 *)
(***************************************************************************)
\* the highest ordinary spot is MaxSpotIdx * SpotStep
MaxSpotIdx == 4
SpotStep == 50 * SCALE

Spots == {Fin(i * SpotStep) : i \in 0 .. MaxSpotIdx} \cup {Fin(120 * SCALE)}
Strikes == {Fin(100 * SCALE)}
Maturities == {Fin(-SCALE), Zero, Fin(SCALE)}
Rates == {Zero, Fin(SCALE \div 50)}
Volatilities == {Fin(-(SCALE \div 5)), Zero, Fin(SCALE \div 5), Fin(SCALE \div 2)}
Yields == {Zero, Fin(SCALE \div 100)}
ExtremeRate == Fin(-720 * SCALE)

Arguments(spots, strikes, maturities, rates, vols, yields) ==
    {[S |-> s, K |-> k, T |-> t, r |-> r, sigma |-> v, q |-> y] :
        s \in spots, k \in strikes, t \in maturities, r \in rates,
        v \in vols, y \in yields}

OrdinaryArguments == Arguments(Spots, Strikes, Maturities, Rates, Volatilities, Yields)
ExtremeArguments ==
    Arguments(Spots, Strikes, {Fin(SCALE)}, {ExtremeRate}, {Fin(SCALE \div 2)}, {Zero})

CallOf(a) == bs_call_price(a.S, a.K, a.T, a.r, a.sigma, a.q)
PutOf(a) == bs_put_price(a.S, a.K, a.T, a.r, a.sigma, a.q)

PricingInit ==
    /\ pc = "idle"
    /\ strike = None /\ time_to_maturity = None /\ risk_free_rate = None
    /\ volatility = None /\ dividend_yield = None
    /\ S_vals = <<>> /\ call_vals = <<>> /\ put_vals = <<>>
    /\ intrinsic_call_vals = <<>> /\ intrinsic_put_vals = <<>>
    /\ call_frames = <<>> /\ put_frames = <<>>
    /\ args = None /\ call = None /\ put = None /\ prev = None

Price ==
    /\ pc = "idle"
    /\ \E a \in OrdinaryArguments \cup ExtremeArguments :
          /\ args' = a
          /\ call' = CallOf(a)
          /\ put' = PutOf(a)
    /\ prev' = None
    /\ pc' = "priced"
    /\ UNCHANGED <<sliders, curves>>

Reprice ==
    /\ pc = "priced"
    /\ \E s \in Spots :
          /\ FLt(args.S, s)
          /\ args' = [args EXCEPT !.S = s]
          /\ call' = CallOf(args')
          /\ put' = PutOf(args')
    /\ prev' = [args |-> args, call |-> call, put |-> put]
    /\ pc' = "repriced"
    /\ UNCHANGED <<sliders, curves>>

PricingNext ==
    \/ Price
    \/ Reprice

PricingSpec == PricingInit /\ [][PricingNext]_vars

(***************************************************************************)
(* Properties of the direct calls (checked under PricingSpec).             *)
(***************************************************************************)
Priced == pc \in {"priced", "repriced"}

\* |a - b| <= tol for finite a and b (tol in units of 1 / SCALE)
Within(a, b, tol) == IsFin(a) /\ IsFin(b) /\ Abs(a.v - b.v) <= tol

\* the inputs the specification calls valid: S >= 0, K > 0, T >= 0, sigma >= 0,
\* q >= 0, r any real number
ValidArguments(a) ==
    /\ FGe(a.S, Zero) /\ FGt(a.K, Zero) /\ FGe(a.T, Zero)
    /\ FGe(a.sigma, Zero) /\ FGe(a.q, Zero) /\ IsFin(a.r)

\* S * e^(-qT) - K * e^(-rT), written as the specification writes it
DiscountedForward(a) ==
    FSub(FMul(a.S, FExp(FNeg(FMul(a.q, a.T)))), FMul(a.K, FExp(FNeg(FMul(a.r, a.T)))))

\* max(0, x) of a real number x
Max0(x) == IF IsFin(x) /\ x.v > 0 THEN x ELSE Zero

\* sigma = 0, T = 1.0, S = 120, K = 100, r = 0.02, q = 0
DegenerateScenario ==
    [S |-> Fin(120 * SCALE), K |-> Fin(100 * SCALE), T |-> Fin(SCALE),
     r |-> Fin(SCALE \div 50), sigma |-> Zero, q |-> Zero]

\* C2: whenever sigma <= 0 or T <= 0, the call returns exactly
\* max(0, S e^(-qT) - K e^(-rT)) and the put exactly max(0, K e^(-rT) - S e^(-qT)),
\* and neither call assigns d1 or d2 (so nothing is divided by sigma * sqrt(T));
\* for sigma = 0, T = 1, S = 120, K = 100, r = 0.02, q = 0 the call is
\* 120 - 100 e^(-0.02) = 21.980133 and the put is 0.
C2_DegenerateReturnsDiscountedIntrinsic ==
    Priced /\ (FLe(args.sigma, Zero) \/ FLe(args.T, Zero)) =>
        /\ call.ret = Max0(DiscountedForward(args))
        /\ put.ret = Max0(FNeg(DiscountedForward(args)))
        /\ call.d1 = Unbound /\ call.d2 = Unbound
        /\ put.d1 = Unbound /\ put.d2 = Unbound
        /\ args = DegenerateScenario =>
              Within(call.ret, Fin(21980133), 100) /\ put.ret = Zero

C2_Witness ==
    /\ Priced
    /\ args = DegenerateScenario
    /\ call.d1 = Unbound
    /\ FGt(call.ret, Fin(21 * SCALE))
    /\ put.ret = Zero

\* C3: for all valid inputs both prices are >= 0.
C3_PricesNonNegative ==
    Priced /\ ValidArguments(args) => FGe(call.ret, Zero) /\ FGe(put.ret, Zero)

\* C4: at S = 0 with K > 0, T > 0, sigma > 0 and any r and q, d1 = d2 = -inf, the
\* call is 0 and the put is K e^(-rT); no NaN is produced.
C4_ZeroSpotBoundary ==
    /\ Priced /\ args.S = Zero /\ FGt(args.K, Zero)
    /\ FGt(args.T, Zero) /\ FGt(args.sigma, Zero)
    => /\ call.d1 = NInf /\ call.d2 = NInf
       /\ call.ret = Zero
       /\ put.ret = FMul(args.K, FExp(FNeg(FMul(args.r, args.T))))

\* C5: for every input of the defined domain the two functions return a finite
\* number, never NaN or an infinity.
C5_PricesFinite ==
    Priced /\ ValidArguments(args) => IsFin(call.ret) /\ IsFin(put.ret)

\* C6: with everything else fixed and S1 <= S2, call(S1) <= call(S2) and
\* put(S1) >= put(S2).
C6_MonotoneInSpot ==
    pc = "repriced" /\ FLe(prev.args.S, args.S) =>
        /\ FLe(prev.call.ret, call.ret)
        /\ FGe(prev.put.ret, put.ret)

\* S = 100, K = 100, T = 1.0, r = 0.02, sigma = 0.20, q = 0.01
ReferenceScenario ==
    [S |-> Fin(100 * SCALE), K |-> Fin(100 * SCALE), T |-> Fin(SCALE),
     r |-> Fin(SCALE \div 50), sigma |-> Fin(SCALE \div 5), q |-> Fin(SCALE \div 100)]

\* C8 as the specification states it: in the reference scenario the call is
\* within 1e-3 of 8.019 and the put within 1e-3 of 6.903.
C8_ReferenceScenarioAsStated ==
    Priced /\ args = ReferenceScenario =>
        /\ Within(call.ret, Fin(8019000), SCALE \div KILO)
        /\ Within(put.ret, Fin(6903000), SCALE \div KILO)

\* C8 amended: in the reference scenario the call is within 1e-3 of 8.3494 and the
\* put within 1e-3 of 7.3643.
C8_ReferenceScenario ==
    Priced /\ args = ReferenceScenario =>
        /\ Within(call.ret, Fin(8349400), SCALE \div KILO)
        /\ Within(put.ret, Fin(7364300), SCALE \div KILO)

C8_Witness ==
    /\ Priced
    /\ args = ReferenceScenario
    /\ IsFin(call.d1) /\ IsFin(call.d2)
    /\ FGt(call.ret, Fin(8 * SCALE)) /\ FGt(put.ret, Fin(7 * SCALE))

(***************************************************************************)
(* Properties of main() (checked under Spec).                              *)
(***************************************************************************)
Swept == pc \in {"call_vals", "put_vals", "intrinsic", "plot"}

\* C7: for every strike the sweep has exactly 200 spots, the first 0, the last
\* exactly 2K, strictly increasing, every gap 2K/199 (up to the rounding of the
\* quotient, half a unit per point); once main() has built them, the four value
\* sequences are as long as the spot sequence, entry i of each is computed from
\* spot i, and one call price and one put price were evaluated per spot.
C7_CurveGeneration ==
    /\ Swept =>
          /\ Len(S_vals) = NUM_POINTS
          /\ S_vals[1] = Zero
          /\ S_vals[Len(S_vals)] = S_max
          /\ \A i \in 1 .. Len(S_vals) : IsFin(S_vals[i])
          /\ LET gap == FDiv(S_max, Fin((NUM_POINTS - 1) * SCALE)).v
             IN  \A i \in 1 .. Len(S_vals) - 1 :
                    /\ S_vals[i].v < S_vals[i + 1].v
                    /\ Abs(S_vals[i + 1].v - S_vals[i].v - gap) <= NUM_POINTS \div 2
    /\ pc = "plot" =>
          /\ Len(call_vals) = Len(S_vals) /\ Len(put_vals) = Len(S_vals)
          /\ Len(intrinsic_call_vals) = Len(S_vals)
          /\ Len(intrinsic_put_vals) = Len(S_vals)
          /\ Len(call_frames) = Len(S_vals) /\ Len(put_frames) = Len(S_vals)
          /\ \A i \in 1 .. Len(S_vals) :
                /\ call_vals[i] = bs_call_price(S_vals[i], strike, time_to_maturity,
                                     risk_free_rate, volatility, dividend_yield).ret
                /\ put_vals[i] = bs_put_price(S_vals[i], strike, time_to_maturity,
                                     risk_free_rate, volatility, dividend_yield).ret
                /\ intrinsic_call_vals[i] = Max0(FSub(S_vals[i], strike))
                /\ intrinsic_put_vals[i] = Max0(FSub(strike, S_vals[i]))

C7_Witness ==
    /\ pc = "plot"
    /\ strike = Fin(STRIKE_MAX * SCALE)
    /\ Len(S_vals) = NUM_POINTS
    /\ S_vals[NUM_POINTS] = Fin(2 * STRIKE_MAX * SCALE)
    /\ Len(call_vals) = NUM_POINTS /\ Len(put_vals) = NUM_POINTS

\* C9: intrinsic_call(S, K) = max(S - K, 0) and intrinsic_put(S, K) = max(K - S, 0);
\* over the spot sequence they give sequences of its length, every entry >= 0, at
\* most one of the two non-zero at each spot, and their difference is S - K.
C9_IntrinsicValues ==
    pc = "plot" =>
        /\ Len(intrinsic_call_vals) = Len(S_vals)
        /\ Len(intrinsic_put_vals) = Len(S_vals)
        /\ \A i \in 1 .. Len(S_vals) :
              LET ic == intrinsic_call_vals[i]
                  ip == intrinsic_put_vals[i]
                  d == S_vals[i].v - strike.v
              IN  /\ ic = Fin(IF d > 0 THEN d ELSE 0)
                  /\ ip = Fin(IF -d > 0 THEN -d ELSE 0)
                  /\ FGe(ic, Zero) /\ FGe(ip, Zero)
                  /\ ic = Zero \/ ip = Zero
                  /\ FSub(ic, ip) = FSub(S_vals[i], strike)

C9_Witness ==
    /\ pc = "plot"
    /\ Len(intrinsic_call_vals) = NUM_POINTS
    /\ FGt(intrinsic_put_vals[1], Zero) /\ intrinsic_call_vals[1] = Zero
    /\ FGt(intrinsic_call_vals[NUM_POINTS], Zero) /\ intrinsic_put_vals[NUM_POINTS] = Zero

\* C10: whatever the sliders give, every pricing call made by main() has K > 0,
\* T > 0 and sigma > 0, none takes the degenerate branch (d1 and d2 are assigned in
\* every call), and the only singular argument is S = 0 at the first spot: d1 is
\* -inf there and finite at every other spot.
C10_SlidersKeepClosedForm ==
    /\ pc \notin {"start", "idle"} =>
          /\ FGt(strike, Zero) /\ FGt(time_to_maturity, Zero) /\ FGt(volatility, Zero)
          /\ FGe(risk_free_rate, Zero) /\ FGe(dividend_yield, Zero)
    /\ \A i \in 1 .. Len(call_frames) :
          /\ call_frames[i].d1 # Unbound /\ call_frames[i].d2 # Unbound
          /\ IF i = 1 THEN S_vals[i] = Zero /\ call_frames[i].d1 = NInf
                      ELSE FGt(S_vals[i], Zero) /\ IsFin(call_frames[i].d1)
    /\ \A i \in 1 .. Len(put_frames) :
          /\ put_frames[i].d1 # Unbound /\ put_frames[i].d2 # Unbound
          /\ IF i = 1 THEN S_vals[i] = Zero /\ put_frames[i].d1 = NInf
                      ELSE FGt(S_vals[i], Zero) /\ IsFin(put_frames[i].d1)

C10_Witness ==
    /\ pc = "plot"
    /\ volatility = Fin(SCALE \div 100)
    /\ time_to_maturity = Fin(SCALE \div 10)
    /\ Len(call_frames) = NUM_POINTS /\ Len(put_frames) = NUM_POINTS
    /\ call_frames[1].d1 = NInf /\ IsFin(call_frames[2].d1)

====
